---- MODULE Spec2Model ----
(***************************************************************************)
(* A model of the atrium gateway: configuration loading and the routing    *)
(* table (configuration.rs), the token extractors and the authorization    *)
(* evaluator (users.rs), the proxy pipeline and the admin endpoints        *)
(* (apps/mod.rs, users.rs) and the dispatcher (server.rs).                 *)
(*                                                                         *)
(* Strings that the code only compares (logins, roles, paths, xsrf tokens) *)
(* are TLA+ strings.  Strings that the code splits, searches or joins      *)
(* (hosts, targets) are sequences of one-character strings.                *)
(***************************************************************************)
EXTENDS Integers, Sequences, FiniteSets, TLC

VARIABLES
    file,        \* the persisted configuration file (atrium.yaml)
    config,      \* AppState.config: the Config loaded at startup
    config_map,  \* AppState.config_map: the routing table built at startup
    key,         \* AppState.key: the cookie encryption key
    now,         \* the unix clock read by OffsetDateTime::now_utc()
    last,        \* the request in flight with everything its handler did
    tasks        \* the admin operations suspended at an await, by connection

vars == <<file, config, config_map, key, now, last, tasks>>

\* ------------------------------------------------------------------ bounds

\* The clock runs from 0 to MaxTime; presented tokens expire strictly inside.
MaxTime == 2

\* ----------------------------------------------------------------- options

None == [some |-> FALSE]

Some(x) == [some |-> TRUE, v |-> x]

\* ----------------------------------------------------------------- strings

\* s1 ++ s2 ++ ... of format!()
Cat3(a, b, c) == a \o b \o c

\* str::starts_with
StartsWith(s, p) ==
    /\ Len(p) <= Len(s)
    /\ SubSeq(s, 1, Len(p)) = p

\* str::contains
Contains(s, p) ==
    \E i \in 1..(Len(s) + 1) :
        /\ i + Len(p) - 1 <= Len(s)
        /\ SubSeq(s, i, i + Len(p) - 1) = p

\* position of the first occurrence of character c in s, 0 when absent
FirstIndex(s, c) ==
    IF \E i \in 1..Len(s) : s[i] = c
    THEN CHOOSE i \in 1..Len(s) : s[i] = c /\ \A j \in 1..(i - 1) : s[j] # c
    ELSE 0

\* s.split(c).next() and s.split_once(c).unwrap_or((s, "")).0
BeforeFirst(s, c) ==
    IF FirstIndex(s, c) = 0 THEN s ELSE SubSeq(s, 1, FirstIndex(s, c) - 1)

\* the rest of s after the first occurrence of c ("" when absent)
AfterFirst(s, c) ==
    IF FirstIndex(s, c) = 0 THEN <<>> ELSE SubSeq(s, FirstIndex(s, c) + 1, Len(s))

Dot == <<".">>

Colon == <<":">>

Port8080 == <<"8", "0", "8", "0">>

\* ------------------------------------------------------- program constants

AUTH_COOKIE == "ATRIUM_AUTH"

SHARE_TOKEN == "SHARE_TOKEN"

ADMINS_ROLE == "ADMINS"

REDACTED == "REDACTED"

SecondsPerDay == 86400

DefaultSessionDays == 1

\* ------------------------------------------------------------ configuration

\* TlsMode::is_secure
is_secure(tls_mode) ==
    CASE tls_mode = "No" -> FALSE
      [] tls_mode = "BehindProxy" -> TRUE
      [] tls_mode = "Auto" -> TRUE

\* Config::scheme
scheme(c) == IF is_secure(c.tls_mode) THEN <<"h", "t", "t", "p", "s">>
                                      ELSE <<"h", "t", "t", "p">>

\* Config::full_domain
full_domain(c) ==
    scheme(c) \o <<":", "/", "/">> \o c.domain
        \o (IF c.tls_mode = "No" THEN Colon \o Port8080 ELSE <<>>)

\* trim_host
trim_host(host) == BeforeFirst(host, ".")

\* filter_services: the indices of the services kept, in order
filter_services(services, hostname, domain) ==
    { i \in 1..Len(services) :
        IF hostname = domain
        THEN ~Contains(services[i].host, hostname)
        ELSE Contains(services[i].host, hostname) }

\* the authority component of a target such as http://host:port/path
TargetAuthority(target) ==
    LET rest == IF Contains(target, <<":", "/", "/">>)
                THEN SubSeq(target, FirstIndex(target, ":") + 3, Len(target))
                ELSE target
    IN  BeforeFirst(rest, "/")

\* Authority::port
AuthorityPort(authority) ==
    IF FirstIndex(authority, ":") = 0 THEN None
    ELSE Some(AfterFirst(authority, ":"))

\* AppWithUri::from_app_domain_and_http_port
from_app_domain_and_http_port(inner, domain, port) ==
    [ inner |-> inner,
      app_scheme |-> IF port.some THEN "http" ELSE "https",
      app_authority |->
          (IF Contains(inner.host, domain) THEN inner.host
           ELSE Cat3(inner.host, Dot, domain))
          \o (IF port.some THEN Colon \o port.v ELSE <<>>),
      forward_scheme |->
          IF StartsWith(inner.target, <<"h", "t", "t", "p", "s", ":", "/", "/">>)
          THEN "https" ELSE "http",
      forward_authority |-> TargetAuthority(inner.target) ]

\* app_to_host_type
app_to_host_type(app, c, port) ==
    IF app.is_proxy
    THEN [ kind |-> "ReverseApp",
           app |-> from_app_domain_and_http_port(app, c.hostname, port) ]
    ELSE [ kind |-> "StaticApp", app |-> app ]

\* HostType::roles
HostType_roles(target) ==
    IF target.kind = "ReverseApp" THEN target.app.inner.roles ELSE target.app.roles

\* HostType::secured
HostType_secured(target) ==
    IF target.kind = "ReverseApp" THEN target.app.inner.secured ELSE target.app.secured

\* the key of an app's base entry and of its subdomain entries
BaseKey(app, c) == Cat3(trim_host(app.host), Dot, c.hostname)

SubKey(sub, app, c) == Cat3(sub, Dot, BaseKey(app, c))

\* the subdomain entries of load_config's second loop, as <<app, subdomain>>
\* index pairs, and the order in which the loop inserts them
SubEntries(c) ==
    UNION { { <<i, j>> : j \in 1..Len(c.apps[i].subdomains) } :
                i \in filter_services(c.apps, c.hostname, c.domain) }

PairLeq(p, q) == p[1] < q[1] \/ (p[1] = q[1] /\ p[2] <= q[2])

\* the HashMap of load_config: the base entries collected in order, then the
\* subdomain entries inserted in order; a later insert replaces an earlier one
RoutingTable(c, port) ==
    LET kept == filter_services(c.apps, c.hostname, c.domain)
        subs == SubEntries(c)
        SubsAt(k) == { p \in subs : SubKey(c.apps[p[1]].subdomains[p[2]], c.apps[p[1]], c) = k }
        BasesAt(k) == { i \in kept : BaseKey(c.apps[i], c) = k }
        keys == { BaseKey(c.apps[i], c) : i \in kept }
                  \cup { SubKey(c.apps[p[1]].subdomains[p[2]], c.apps[p[1]], c) : p \in subs }
        Winner(k) ==
            IF SubsAt(k) # {}
            THEN (CHOOSE p \in SubsAt(k) : \A q \in SubsAt(k) : PairLeq(q, p))[1]
            ELSE CHOOSE i \in BasesAt(k) : \A j \in BasesAt(k) : j <= i
    IN  [ k \in keys |-> app_to_host_type(c.apps[Winner(k)], c, port) ]

\* load_config as it would be if it kept the generated key in memory only
load_config_key_not_saved(f, generated, env) ==
    LET c1 == IF f.cookie_key.some THEN f
              ELSE [f EXCEPT !.cookie_key = Some(generated)]
        ch == IF env.some THEN [c1 EXCEPT !.hostname = env.v] ELSE c1
        c2 == IF ch.domain = <<>> THEN [ch EXCEPT !.domain = ch.hostname] ELSE ch
        port == IF is_secure(c2.tls_mode) THEN None ELSE Some(Port8080)
    IN  [ file |-> f, config |-> c2, config_map |-> RoutingTable(c2, port) ]

\* load_config, given the file's content, the generated key to use when
\* the file has none and the value of MAIN_HOSTNAME: the file after loading,
\* the Config and the routing table
load_config(f, generated, env) ==
    LET c1 == IF f.cookie_key.some THEN f
              ELSE [f EXCEPT !.cookie_key = Some(generated)]
        ch == IF env.some THEN [c1 EXCEPT !.hostname = env.v] ELSE c1
        c2 == IF ch.domain = <<>> THEN [ch EXCEPT !.domain = ch.hostname] ELSE ch
        port == IF is_secure(c2.tls_mode) THEN None ELSE Some(Port8080)
    IN  [ file |-> c1, config |-> c2, config_map |-> RoutingTable(c2, port) ]

\* the indices of the services kept by filter_services, in the order of the
\* iterator
KeptInOrder(c) ==
    SelectSeq([ i \in 1..Len(c.apps) |-> i ],
              LAMBDA i : i \in filter_services(c.apps, c.hostname, c.domain))

RECURSIVE SubdomainsOf(_, _)
\* the names pushed by the second loop of Config::domains for these apps
SubdomainsOf(c, kept) ==
    IF kept = <<>> THEN <<>>
    ELSE [ j \in 1..Len(c.apps[Head(kept)].subdomains) |->
             SubKey(c.apps[Head(kept)].subdomains[j], c.apps[Head(kept)], c) ]
         \o SubdomainsOf(c, Tail(kept))

\* Config::domains
domains_without_subdomains(self) ==
    <<self.hostname>>
        \o [ k \in 1..Len(KeptInOrder(self)) |-> BaseKey(self.apps[KeptInOrder(self)[k]], self) ]

domains(self) ==
    <<self.hostname>>
        \o [ k \in 1..Len(KeptInOrder(self)) |-> BaseKey(self.apps[KeptInOrder(self)[k]], self) ]
        \o SubdomainsOf(self, KeptInOrder(self))

\* --------------------------------------------------------- initial content

Hostname == <<"a", "t", ".", "i", "o">>

App(id, host, target, is_proxy, secured, roles) ==
    [ id |-> id, host |-> host, target |-> target, is_proxy |-> is_proxy,
      secured |-> secured, roles |-> roles, login |-> <<>>, password |-> <<>>,
      subdomains |-> <<>>, inject_security_headers |-> FALSE,
      forward_user_mail |-> FALSE ]

TargetWithPort == <<"h", "t", "t", "p", ":", "/", "/", "u", ":", "9">>

TargetNoPort == <<"h", "t", "t", "p", ":", "/", "/", "u">>

\* a secured app on an internal upstream, with a subdomain, the upstream's
\* own credentials and the user's mail forwarded
AppFiles ==
    [App(1, <<"f">>, TargetWithPort, TRUE, TRUE, <<"USERS">>)
        EXCEPT !.subdomains = << <<"w">> >>, !.login = <<"u">>, !.password = <<"p">>,
               !.forward_user_mail = TRUE]

AppEmpty == App(2, <<"e">>, TargetNoPort, TRUE, TRUE, <<>>)

\* an open app whose upstream login has no password
AppOpen == [App(3, <<"o">>, TargetNoPort, TRUE, FALSE, <<>>) EXCEPT !.login = <<"u">>]

AppStatic == App(4, <<"s">>, <<"w", "w", "w">>, FALSE, TRUE, <<"USERS">>)

User(login, password, roles) ==
    [ login |-> login, password |-> password, roles |-> roles, info |-> None ]

UserAdmin == User("admin", "pa", <<ADMINS_ROLE>>)

UserAlice == User("alice", "pb", <<"USERS">>)

\* atrium.yaml as found at startup: the apps are in the order they were typed
InitialFile ==
    [ hostname |-> Hostname, domain |-> <<>>, tls_mode |-> "No",
      cookie_key |-> None, session_duration_days |-> None,
      apps |-> <<AppEmpty, AppFiles, AppOpen, AppStatic>>,
      users |-> <<UserAdmin, UserAlice>> ]

Loaded == load_config(InitialFile, "k", None)

\* the configuration files tried on load_config: up to two apps whose hosts
\* are a slug, a slug with a further label, or a name under the hostname,
\* with no, one or a repeated subdomain; the domain left out or set
LoadHosts ==
    { <<"f">>, <<"f", ".", "x">>, <<"g", ".", "a", "t", ".", "i", "o">> }

LoadSubdomains == { <<>>, << <<"w">> >>, << <<"w">>, <<"w">> >> }

LoadApps(id) ==
    { [App(id, host, TargetNoPort, TRUE, FALSE, <<>>) EXCEPT !.subdomains = subs] :
        host \in LoadHosts, subs \in LoadSubdomains }

LoadFiles ==
    { [InitialFile EXCEPT !.apps = apps, !.domain = domain] :
        apps \in { <<>> } \cup { <<a>> : a \in LoadApps(1) }
                  \cup { <<a, b>> : a \in LoadApps(1), b \in LoadApps(2) },
        domain \in { <<>>, <<"x", ".", "i", "o">> } }

\* the values of the environment variable MAIN_HOSTNAME
MainHostnames == { None, Some(<<"b", ".", "i", "o">>) }

\* ------------------------------------------------------------------ tokens

\* the presented tokens expire strictly inside the clock's range, so that
\* the clock is seen before, at and after each expiry
Expiries == 1..(MaxTime - 1)

RoleVecs == { <<>>, <<"USERS">>, <<ADMINS_ROLE>>, <<ADMINS_ROLE, "USERS">> }

Xsrfs == { "x1", "x2" }

HostFiles == <<"f", ".", "a", "t", ".", "i", "o">>

HostSub == <<"w", ".", "f", ".", "a", "t", ".", "i", "o">>

HostEmpty == <<"e", ".", "a", "t", ".", "i", "o">>

HostOpen == <<"o", ".", "a", "t", ".", "i", "o">>

HostStatic == <<"s", ".", "a", "t", ".", "i", "o">>

Share(hostname, path) ==
    [ hostname |-> hostname, path |-> path, share_with |-> None,
      share_for_days |-> None ]

Shares == { None, Some(Share(HostFiles, "/p")) }

\* UserToken
Tokens ==
    [ login : {"alice"}, roles : RoleVecs, xsrf_token : Xsrfs, share : Shares,
      expires : Expiries, info : {None} ]

\* what decrypts to something that is not a serialized UserToken
NotJson == [ json |-> FALSE ]

\* a cookie value: the payload sealed by the private jar under a key, bound
\* to the name of the cookie it was issued as
Seal(k, name, payload) == [ key |-> k, name |-> name, payload |-> payload ]

\* a value that is no ciphertext at all (a clear-text password, a typo)
Plain == Seal("", "", NotJson)

\* PrivateCookieJar::decrypt: the payload, when the value was sealed under
\* this key as a cookie of this name
decrypt(k, name, value) ==
    IF value.key = k /\ value.name = name THEN Some(value.payload) ELSE None

\* PrivateCookieJar::get on the request's cookie of that name
jar_get(k, name, r) ==
    IF r.cookie.some THEN decrypt(k, name, r.cookie.v) ELSE None

\* ------------------------------------------------------------- extractors

Ok(token) == [ ok |-> TRUE, token |-> token ]

Err(status, msg) == [ ok |-> FALSE, status |-> status, msg |-> msg ]

\* UserToken::check_expires
check_expires(self, n) ==
    IF n > self.expires THEN Err(403, "user token is expired") ELSE Ok(self)

\* UserToken::from_json
from_json(serialized_user_token, n) ==
    IF serialized_user_token = NotJson
    THEN Err(500, "could not deserialize user token")
    ELSE check_expires(serialized_user_token, n)

\* cookie_from_password
cookie_from_password(cookie_name, k, password, n) ==
    LET decrypted_cookie == decrypt(k, cookie_name, password)
    IN  IF ~decrypted_cookie.some
        THEN Err(500, "could not decrypt user token")
        ELSE from_json(decrypted_cookie.v, n)

\* user_to_token, with the random xsrf token drawn
user_to_token(user, c, n, xsrf) ==
    [ login |-> user.login, roles |-> user.roles, xsrf_token |-> xsrf,
      share |-> None,
      expires |-> n + SecondsPerDay *
          (IF c.session_duration_days.some THEN c.session_duration_days.v
           ELSE DefaultSessionDays),
      info |-> user.info ]

\* authenticate_local_user: the user found and the token made for it
authenticate_local_user(c, login, n, xsrf) ==
    IF \E i \in 1..Len(c.users) : c.users[i].login = login
    THEN LET i == CHOOSE i \in 1..Len(c.users) :
                      /\ c.users[i].login = login
                      /\ \A j \in 1..(i - 1) : c.users[j].login # login
         IN  [ ok |-> TRUE, user |-> c.users[i],
               token |-> user_to_token(c.users[i], c, n, xsrf) ]
    ELSE Err(401, "user does not exist")

\* the strict extractor as it would be if the cookie were accepted without
\* comparing the XSRF-TOKEN header
UserToken_from_request_parts_no_xsrf(r, k, c, n, xsrf) ==
    LET cookie == jar_get(k, AUTH_COOKIE, r)
    IN  IF cookie.some /\ r.xsrf.some
        THEN [ res |-> from_json(cookie.v, n), by |-> "cookie" ]
        ELSE IF r.query.some
        THEN LET res == cookie_from_password(AUTH_COOKIE, k, r.query.v, n)
             IN  IF res.ok THEN [ res |-> res, by |-> "query" ]
                 ELSE [ res |-> cookie_from_password(SHARE_TOKEN, k, r.query.v, n),
                        by |-> "query" ]
        ELSE IF r.basic.some
        THEN LET res == cookie_from_password(AUTH_COOKIE, k, r.basic.v.password, n)
                 local == authenticate_local_user(c, r.basic.v.username, n, xsrf)
             IN  IF res.ok THEN [ res |-> res, by |-> "basic" ]
                 ELSE IF local.ok
                 THEN [ res |-> Ok(local.token), by |-> "basic" ]
                 ELSE [ res |-> Err(local.status, "no user found in basic auth"),
                        by |-> "basic" ]
        ELSE [ res |-> Err(401, "no user found or xsrf token not provided"),
               by |-> "none" ]

\* the strict extractor as it would be if the query were read before the
\* cookie
UserToken_from_request_parts_query_first(r, k, c, n, xsrf) ==
    LET cookie == jar_get(k, AUTH_COOKIE, r)
    IN  IF r.query.some
        THEN LET res == cookie_from_password(AUTH_COOKIE, k, r.query.v, n)
             IN  IF res.ok THEN [ res |-> res, by |-> "query" ]
                 ELSE [ res |-> cookie_from_password(SHARE_TOKEN, k, r.query.v, n),
                        by |-> "query" ]
        ELSE IF cookie.some /\ r.xsrf.some
        THEN LET user_token == from_json(cookie.v, n)
             IN  IF ~user_token.ok THEN [ res |-> user_token, by |-> "cookie" ]
                 ELSE IF user_token.token.xsrf_token # r.xsrf.v
                 THEN [ res |-> Err(403, "xsrf token doesn't match"), by |-> "cookie" ]
                 ELSE [ res |-> user_token, by |-> "cookie" ]
        ELSE IF r.basic.some
        THEN LET res == cookie_from_password(AUTH_COOKIE, k, r.basic.v.password, n)
                 local == authenticate_local_user(c, r.basic.v.username, n, xsrf)
             IN  IF res.ok THEN [ res |-> res, by |-> "basic" ]
                 ELSE IF local.ok
                 THEN [ res |-> Ok(local.token), by |-> "basic" ]
                 ELSE [ res |-> Err(local.status, "no user found in basic auth"),
                        by |-> "basic" ]
        ELSE [ res |-> Err(401, "no user found or xsrf token not provided"),
               by |-> "none" ]

\* UserToken::from_request_parts (the strict extractor): its result and the
\* credential mode whose return statement produced it
UserToken_from_request_parts(r, k, c, n, xsrf) ==
    LET cookie == jar_get(k, AUTH_COOKIE, r)
    IN  IF cookie.some /\ r.xsrf.some
        THEN LET user_token == from_json(cookie.v, n)
             IN  IF ~user_token.ok THEN [ res |-> user_token, by |-> "cookie" ]
                 ELSE IF user_token.token.xsrf_token # r.xsrf.v
                 THEN [ res |-> Err(403, "xsrf token doesn't match"), by |-> "cookie" ]
                 ELSE [ res |-> user_token, by |-> "cookie" ]
        ELSE IF r.query.some
        THEN LET res == cookie_from_password(AUTH_COOKIE, k, r.query.v, n)
             IN  IF res.ok THEN [ res |-> res, by |-> "query" ]
                 ELSE [ res |-> cookie_from_password(SHARE_TOKEN, k, r.query.v, n),
                        by |-> "query" ]
        ELSE IF r.basic.some
        THEN LET res == cookie_from_password(AUTH_COOKIE, k, r.basic.v.password, n)
                 local == authenticate_local_user(c, r.basic.v.username, n, xsrf)
             IN  IF res.ok THEN [ res |-> res, by |-> "basic" ]
                 ELSE IF local.ok
                 THEN [ res |-> Ok(local.token), by |-> "basic" ]
                 ELSE [ res |-> Err(local.status, "no user found in basic auth"),
                        by |-> "basic" ]
        ELSE [ res |-> Err(401, "no user found or xsrf token not provided"),
               by |-> "none" ]

\* Vec::contains
VecContains(v, x) == \E i \in 1..Len(v) : v[i] = x

\* AdminToken::from_request_parts as it would be without the test of the
\* ADMINS role
AdminToken_from_request_parts_any_role(r, k, c, n, xsrf) ==
    UserToken_from_request_parts(r, k, c, n, xsrf)

\* AdminToken::from_request_parts
AdminToken_from_request_parts(r, k, c, n, xsrf) ==
    LET user == UserToken_from_request_parts(r, k, c, n, xsrf)
    IN  IF ~user.res.ok THEN user
        ELSE IF ~VecContains(user.res.token.roles, ADMINS_ROLE)
        THEN [ res |-> Err(401, "user is not in admin group"), by |-> user.by ]
        ELSE user

\* the relaxed extractor as it would be if it compared the XSRF-TOKEN header
\* like the strict one
UserTokenWithoutXSRFCheck_from_request_parts_strict(r, k, n) ==
    LET cookie == jar_get(k, AUTH_COOKIE, r)
        user_token == from_json(cookie.v, n)
    IN  IF cookie.some
        THEN IF user_token.ok /\ (~r.xsrf.some \/ user_token.token.xsrf_token # r.xsrf.v)
             THEN Err(403, "xsrf token doesn't match")
             ELSE user_token
        ELSE Err(401, "no user found")

\* UserTokenWithoutXSRFCheck::from_request_parts (the relaxed extractor)
UserTokenWithoutXSRFCheck_from_request_parts(r, k, n) ==
    LET cookie == jar_get(k, AUTH_COOKIE, r)
    IN  IF cookie.some THEN from_json(cookie.v, n)
        ELSE Err(401, "no user found")

\* ----------------------------------------------------------- authorization

Response(status, body) ==
    [ status |-> status, body |-> body, www_authenticate |-> None,
      location |-> None, set_cookie |-> None ]

\* what the client gets when the handler's task panics (the unwrap of
\* Config::to_file, the panic! of proxy_handler): the connection is closed,
\* no response is sent, and the server goes on accepting connections
Panicked ==
    [ status |-> 0, body |-> "connection closed", www_authenticate |-> None,
      location |-> None, set_cookie |-> None ]

\* check_user_has_role as it would be if an empty list of allowed roles let
\* every user in
check_user_has_role_empty_allows(user, roles) ==
    \/ roles = <<>>
    \/ \E i \in 1..Len(user.roles) : \E j \in 1..Len(roles) : user.roles[i] = roles[j]

\* check_user_has_role
check_user_has_role(user, roles) ==
    \E i \in 1..Len(user.roles) : \E j \in 1..Len(roles) : user.roles[i] = roles[j]

\* check_user_has_role_or_forbid as it would be if the share's path were not
\* compared
check_user_has_role_or_forbid_no_path(user, target, hostname, path) ==
    IF user.some
    THEN IF \/ ~check_user_has_role(user.v, HostType_roles(target))
            \/ /\ user.v.share.some
               /\ user.v.share.v.hostname # hostname
         THEN Some(Response(403, ""))
         ELSE None
    ELSE Some([Response(401, "") EXCEPT
                  !.www_authenticate = Some("Basic realm=\"server\"")])

\* check_user_has_role_or_forbid
check_user_has_role_or_forbid(user, target, hostname, path) ==
    IF user.some
    THEN IF \/ ~check_user_has_role(user.v, HostType_roles(target))
            \/ /\ user.v.share.some
               /\ \/ user.v.share.v.path # path
                  \/ user.v.share.v.hostname # hostname
         THEN Some(Response(403, ""))
         ELSE None
    ELSE Some([Response(401, "") EXCEPT
                  !.www_authenticate = Some("Basic realm=\"server\"")])

\* check_authorization
check_authorization(app, user, hostname, path) ==
    IF HostType_secured(app)
    THEN check_user_has_role_or_forbid(user, app, hostname, path)
    ELSE None

\* ---------------------------------------------------------------- requests

\* the key this server seals its cookies with
ServerKey == Loaded.config.cookie_key.v

\* a key that is not this server's
ForeignKey == "zz"

\* a credential value built from token t: not a ciphertext, t sealed under
\* another key, or t sealed by this server as a session cookie or as a share
\* token
Values(t) ==
    { Plain, Seal(ForeignKey, AUTH_COOKIE, t), Seal(ServerKey, AUTH_COOKIE, t),
      Seal(ServerKey, SHARE_TOKEN, t) }

Basic(username, password) == [ username |-> username, password |-> password ]

\* the credentials of a request that presents token t in any of the four
\* places a credential can be in
CredsOf(t) ==
    [ cookie : {None} \cup { Some(v) : v \in Values(t) },
      xsrf : { None, Some("x1") },
      query : {None} \cup { Some(v) : v \in Values(t) },
      basic : { None, Some(Basic("alice", Plain)), Some(Basic("ghost", Plain)),
                Some(Basic("alice", Seal(ServerKey, AUTH_COOKIE, t))) } ]

Creds == UNION { CredsOf(t) : t \in Tokens \cup {NotJson} }

\* the credentials of the sessions opened by the login page: the token has
\* no share scope and travels in the cookie, or the client uses Basic
SessionCreds ==
    { c \in UNION { CredsOf(t) : t \in { u \in Tokens : ~u.share.some /\ u.xsrf_token = "x1" } } :
         ~c.query.some }

\* the Host header and path of the requests sent to the apps
AppTargets ==
    { <<HostFiles \o Colon \o Port8080, "/p">>, <<HostFiles \o Colon \o Port8080, "/">>,
      <<HostSub, "/p">>, <<HostEmpty, "/p">>, <<HostOpen \o Colon \o Port8080, "/">> }

Request(host, path, cred) ==
    [ host |-> host, path |-> path, cookie |-> cred.cookie, xsrf |-> cred.xsrf,
      query |-> cred.query, basic |-> cred.basic ]

\* the requests sent to the apps with the given credentials
AppRequests(creds) ==
    { Request(Some(t[1]), t[2], cred) : t \in AppTargets, cred \in creds }

\* the requests sent to the management host, for a route's path
MainRequests(creds, path) ==
    { Request(Some(Hostname \o Colon \o Port8080), path, cred) : cred \in creds }

AllAppRequests == AppRequests(Creds)

AllWhoamiRequests == MainRequests(Creds, "/api/user/whoami")

AllAppsRequests == MainRequests(Creds, "/api/admin/apps")

AllUsersRequests == MainRequests(Creds, "/api/admin/users")

SessionAppRequests == AppRequests(SessionCreds)

SessionWhoamiRequests == MainRequests(SessionCreds, "/api/user/whoami")

SessionAppsRequests == MainRequests(SessionCreds, "/api/admin/apps")

SessionAppRequestsById == MainRequests(SessionCreds, "/api/admin/apps/:app_id")

SessionUsersRequests == MainRequests(SessionCreds, "/api/admin/users")

SessionUserRequestsByLogin == MainRequests(SessionCreds, "/api/admin/users/:user_login")

\* UserInfo of a user who has a mail address
MailInfo == Some([ firstname |-> "", lastname |-> "", email |-> "a@x" ])

\* the tokens of the sessions that reach the apps: with or without the role
\* the apps ask for, a share scope, a mail address
ProxyTokens ==
    [ login : {"alice"}, roles : { <<>>, <<"USERS">> }, xsrf_token : {"x1"},
      share : Shares, expires : Expiries, info : { None, MailInfo } ]

\* the credentials of the requests sent to the apps: the session cookie or
\* none, with or without an Authorization header meant for the upstream
ProxyCreds ==
    [ cookie : {None} \cup { Some(Seal(ServerKey, AUTH_COOKIE, t)) : t \in ProxyTokens },
      xsrf : {None}, query : {None},
      basic : { None, Some(Basic("alice", Plain)) } ]

ProxyRequests == AppRequests(ProxyCreds)

\* the Host values of the requests that try the dispatcher: none, the
\* management host, hosts of the routing table with and without a port
\* suffix and in upper case, and a host that is nowhere
HostUpper == <<"F", ".", "a", "t", ".", "i", "o">>

HostUnknown == <<"q", ".", "a", "t", ".", "i", "o">>

RouteHosts ==
    { None, Some(Hostname), Some(Hostname \o Colon \o Port8080),
      Some(HostFiles), Some(HostFiles \o Colon \o Port8080),
      Some(HostUpper), Some(HostUpper \o Colon \o Port8080),
      Some(HostStatic), Some(HostStatic \o Colon \o Port8080),
      Some(HostSub), Some(HostUnknown) }

\* the session of a user who holds the role the apps ask for
RouteToken ==
    [ login |-> "alice", roles |-> <<"USERS">>, xsrf_token |-> "x1", share |-> None,
      expires |-> MaxTime - 1, info |-> None ]

RouteCreds ==
    [ cookie : { None, Some(Seal(ServerKey, AUTH_COOKIE, RouteToken)) },
      xsrf : { None, Some("x1") }, query : {None}, basic : {None} ]

\* the same request sent with each Host value
RouteRequests ==
    { Request(host, "/api/user/whoami", cred) : host \in RouteHosts, cred \in RouteCreds }

\* -------------------------------------------------------------- dispatcher

\* HostType::from_request_parts
HostType_from_request_parts(r, map) ==
    IF ~r.host.some THEN [ ok |-> FALSE, status |-> 404 ]
    ELSE LET hostname == BeforeFirst(r.host.v, ":")
         IN  IF hostname \in DOMAIN map
             THEN [ ok |-> TRUE, target |-> map[hostname] ]
             ELSE [ ok |-> FALSE, status |-> 404 ]

\* the fallback closure of Server::build as it would be if it sent the
\* static apps to the proxy pipeline
Dispatch_static_to_proxy(r, map) ==
    LET hostype == HostType_from_request_parts(r, map)
    IN  IF ~hostype.ok THEN "main_router" ELSE "proxy_router"

\* the fallback closure of Server::build: the router the request is sent to
Dispatch_static_to_main(r, map) ==
    LET hostype == HostType_from_request_parts(r, map)
    IN  IF ~hostype.ok THEN "main_router"
        ELSE IF hostype.target.kind = "StaticApp" THEN "main_router"
        ELSE "proxy_router"

Dispatch(r, map) ==
    LET hostype == HostType_from_request_parts(r, map)
    IN  IF ~hostype.ok THEN "main_router"
        ELSE IF hostype.target.kind = "StaticApp" THEN "dir_router"
        ELSE "proxy_router"

\* ---------------------------------------------------------------- handlers

Idle == [ handler |-> "idle" ]

\* what a handler did with a request: the extractor's result (auth) and the
\* credential mode that produced it (by), the authorization evaluator's
\* verdict (authz), whether the request-rewriting stage was entered
\* (forwarded), whether the configuration file was read or written, and the
\* response
Done(handler, r, arg, auth, by, authz, forwarded, fread, fwrite, resp) ==
    [ handler |-> handler, req |-> r, arg |-> arg, at |-> now, auth |-> auth,
      by |-> by, authz |-> authz, forwarded |-> forwarded, fread |-> fread,
      fwrite |-> fwrite, resp |-> resp ]

\* the record of a request with what the proxy pipeline made of it
Sent(d, out) ==
    [ handler |-> d.handler, req |-> d.req, arg |-> d.arg, at |-> d.at,
      auth |-> d.auth, by |-> d.by, authz |-> d.authz, forwarded |-> d.forwarded,
      fread |-> d.fread, fwrite |-> d.fwrite, resp |-> d.resp, out |-> out ]

\* HeaderValue::from_str
HeaderValue_from_str_ok(s) == \A i \in 1..Len(s) : s[i] \notin { "\n", "\r" }

RedirectMaxAge == 60

\* the ATRIUM_REDIRECT cookie of proxy_handler
RedirectCookie(c, hostname) ==
    [ name |-> "ATRIUM_REDIRECT",
      value |-> scheme(c) \o <<":", "/", "/">> \o hostname,
      domain |-> c.domain, path |-> "/", same_site |-> "Lax",
      secure |-> FALSE, max_age |-> RedirectMaxAge, http_only |-> FALSE ]

\* the letters and digits in ASCII order
UpperCase ==
    << "A", "B", "C", "D", "E", "F", "G", "H", "I", "J", "K", "L", "M",
       "N", "O", "P", "Q", "R", "S", "T", "U", "V", "W", "X", "Y", "Z" >>

LowerCase ==
    << "a", "b", "c", "d", "e", "f", "g", "h", "i", "j", "k", "l", "m",
       "n", "o", "p", "q", "r", "s", "t", "u", "v", "w", "x", "y", "z" >>

Digits == << "0", "1", "2", "3", "4", "5", "6", "7", "8", "9" >>

\* position of character c in the tuple t
IndexIn(t, c) == CHOOSE k \in 1..Len(t) : t[k] = c

\* the ASCII code of a letter, a digit, '-', '.' or ':'
Byte(c) ==
    CASE c \in { UpperCase[k] : k \in 1..26 } -> 64 + IndexIn(UpperCase, c)
      [] c \in { LowerCase[k] : k \in 1..26 } -> 96 + IndexIn(LowerCase, c)
      [] c \in { Digits[k] : k \in 1..10 } -> 47 + IndexIn(Digits, c)
      [] c = "-" -> 45
      [] c = "." -> 46
      [] c = ":" -> 58

\* str::as_bytes
as_bytes(s) == [ i \in 1..Len(s) |-> Byte(s[i]) ]

\* the alphabet of base64ct::Base64
Base64Alphabet == UpperCase \o LowerCase \o Digits \o << "+", "/" >>

RECURSIVE encode_string(_)
\* base64ct::Base64::encode_string: three bytes make four characters, and a
\* last group of one or two bytes is padded with the equals sign
encode_string(bytes) ==
    LET Digit(n) == Base64Alphabet[n + 1]
    IN  IF Len(bytes) = 0 THEN <<>>
        ELSE IF Len(bytes) = 1
        THEN << Digit(bytes[1] \div 4), Digit((bytes[1] % 4) * 16), "=", "=" >>
        ELSE IF Len(bytes) = 2
        THEN << Digit(bytes[1] \div 4),
                Digit((bytes[1] % 4) * 16 + bytes[2] \div 16),
                Digit((bytes[2] % 16) * 4), "=" >>
        ELSE << Digit(bytes[1] \div 4),
                Digit((bytes[1] % 4) * 16 + bytes[2] \div 16),
                Digit((bytes[2] % 16) * 4 + bytes[3] \div 64),
                Digit(bytes[3] % 64) >>
             \o encode_string(SubSeq(bytes, 4, Len(bytes)))

\* the Authorization value forged from the app's login and password
ForgedAuthorization(inner) ==
    [ scheme |-> "Basic",
      credentials |-> encode_string(as_bytes(Cat3(inner.login, Colon, inner.password))) ]

\* the Authorization values of the inbound request
InboundAuthorization(r) == IF r.basic.some THEN << r.basic.v >> ELSE <<>>

\* HeaderMap::insert: the values of the header are replaced by this one
insert_appends(values, value) == Append(values, value)

insert(values, value) == << value >>

\* proxy_handler past the authorization check: the request as rewritten (its
\* URI, the values of the headers the handler deals with), the upstream
\* invocations made, and the response, which the handler builds itself
rewrite_skips_port_test(r, app) ==
    [ uri |-> [ scheme |-> None, authority |-> None, path |-> r.path ],
      x_forwarded_host |-> Some(app.app_authority),
      x_forwarded_proto |-> Some(app.app_scheme),
      authorization |->
          IF app.inner.login # <<>> /\ app.inner.password # <<>>
          THEN insert(InboundAuthorization(r), ForgedAuthorization(app.inner))
          ELSE InboundAuthorization(r),
      remote_user |-> None,
      upstream |-> <<>>,
      resp |-> Response(200, "Hello World!"),
      resp_from |-> "handler" ]

rewrite(r, app) ==
    [ uri |-> [ scheme |-> None, authority |-> None, path |-> r.path ],
      x_forwarded_host |->
          IF AuthorityPort(app.forward_authority).some
          THEN Some(app.app_authority) ELSE None,
      x_forwarded_proto |->
          IF AuthorityPort(app.forward_authority).some
          THEN Some(app.app_scheme) ELSE None,
      authorization |->
          IF app.inner.login # <<>> /\ app.inner.password # <<>>
          THEN insert(InboundAuthorization(r), ForgedAuthorization(app.inner))
          ELSE InboundAuthorization(r),
      remote_user |-> None,
      upstream |-> <<>>,
      resp |-> Response(200, "Hello World!"),
      resp_from |-> "handler" ]

\* what proxy_handler leaves of a request it does not rewrite
NotRewritten == [ rewritten |-> FALSE ]

\* proxy_handler: the response, whether the rewriting stage was entered and
\* what it made of the request
proxy_handler_keeps_401(r, user, app, c) ==
    LET hostname == r.host.v
        domain == BeforeFirst(hostname, ":")
        value == check_authorization(app, user, domain, r.path)
    IN  IF value.some
        THEN [ authz |-> value, forwarded |-> FALSE, out |-> NotRewritten,
               resp |-> value.v ]
        ELSE IF app.kind # "ReverseApp"
        THEN [ authz |-> value, forwarded |-> FALSE, out |-> NotRewritten,
               resp |-> Panicked ]
        ELSE [ authz |-> value, forwarded |-> TRUE, out |-> rewrite(r, app.app),
               resp |-> rewrite(r, app.app).resp ]

proxy_handler(r, user, app, c) ==
    LET hostname == r.host.v
        domain == BeforeFirst(hostname, ":")
        value == check_authorization(app, user, domain, r.path)
    IN  IF value.some
        THEN [ authz |-> value, forwarded |-> FALSE, out |-> NotRewritten,
               resp |->
                 IF value.v.status = 401 /\ HeaderValue_from_str_ok(full_domain(c))
                 THEN [value.v EXCEPT !.status = 302,
                                      !.location = Some(full_domain(c)),
                                      !.set_cookie = Some(RedirectCookie(c, hostname))]
                 ELSE value.v ]
        ELSE IF app.kind # "ReverseApp"
        THEN [ authz |-> value, forwarded |-> FALSE, out |-> NotRewritten,
               resp |-> Panicked ]
        ELSE [ authz |-> value, forwarded |-> TRUE, out |-> rewrite(r, app.app),
               resp |-> rewrite(r, app.app).resp ]

\* the proxy pipeline: the extractors of proxy_handler, then its body
ProxyHandler(reqs) ==
    /\ last = Idle
    /\ \E r \in reqs :
        /\ Dispatch(r, config_map) = "proxy_router"
        /\ LET auth == UserTokenWithoutXSRFCheck_from_request_parts(r, key, now)
               user == IF auth.ok THEN Some(auth.token) ELSE None
               app == HostType_from_request_parts(r, config_map)
               out == proxy_handler(r, user, app.target, config)
           IN  last' =
                 IF ~app.ok
                 THEN Sent(Done("proxy_handler", r, None, auth, "cookie", None, FALSE,
                                FALSE, FALSE, Response(app.status, "")), NotRewritten)
                 ELSE Sent(Done("proxy_handler", r, None, auth, "cookie", out.authz,
                                out.forwarded, FALSE, FALSE, out.resp), out.out)
        /\ UNCHANGED <<file, config, config_map, key, now, tasks>>

\* the static pipeline: the authorization evaluator is consulted, then the
\* file is served
DirHandler(reqs) ==
    /\ last = Idle
    /\ \E r \in reqs :
        /\ Dispatch(r, config_map) = "dir_router"
        /\ LET auth == UserTokenWithoutXSRFCheck_from_request_parts(r, key, now)
               user == IF auth.ok THEN Some(auth.token) ELSE None
               app == HostType_from_request_parts(r, config_map).target
               value == check_authorization(app, user, BeforeFirst(r.host.v, ":"), r.path)
           IN  last' = Done("dir_handler", r, None, auth, "cookie", value, FALSE,
                            FALSE, FALSE,
                            IF value.some THEN value.v ELSE Response(200, "file"))
        /\ UNCHANGED <<file, config, config_map, key, now, tasks>>

\* the answer to a request whose extractor rejected it
Rejected(handler, r, a) ==
    Done(handler, r, None, a.res, a.by, None, FALSE, FALSE, FALSE,
         Response(a.res.status, a.res.msg))

\* the random xsrf tokens user_to_token can draw for this request
XsrfDraws(r) == IF r.basic.some THEN Xsrfs ELSE { "x1" }

\* whoami
Whoami(reqs) ==
    /\ last = Idle
    /\ \E r \in reqs :
        /\ Dispatch(r, config_map) = "main_router"
        /\ \E xsrf \in XsrfDraws(r) :
            LET a == UserToken_from_request_parts(r, key, config, now, xsrf)
            IN  last' =
                  IF ~a.res.ok THEN Rejected("whoami", r, a)
                  ELSE Done("whoami", r, None, a.res, a.by, None, FALSE, FALSE, FALSE,
                            Response(200, [ login |-> a.res.token.login,
                                            password |-> REDACTED,
                                            roles |-> a.res.token.roles,
                                            info |-> a.res.token.info ]))
        /\ UNCHANGED <<file, config, config_map, key, now, tasks>>

\* ------------------------------------------------------ the admin endpoints

RECURSIVE InsertById(_, _)
\* app a put into the sorted list s, behind the apps whose id is not larger
InsertById(s, a) ==
    IF s = <<>> THEN <<a>>
    ELSE IF s[Len(s)].id <= a.id THEN Append(s, a)
    ELSE Append(InsertById(SubSeq(s, 1, Len(s) - 1), a), s[Len(s)])

RECURSIVE SortById(_)
\* Vec::sort_by on the ids (a stable sort)
SortById(s) ==
    IF s = <<>> THEN <<>>
    ELSE InsertById(SortById(SubSeq(s, 1, Len(s) - 1)), s[Len(s)])

\* to_file_or_internal_server_error as it would be if it wrote the list of
\* apps in the order it got it
to_file_or_internal_server_error_unsorted(self) == self

\* Config::to_file_or_internal_server_error: the content written to the file
to_file_or_internal_server_error(self) == [self EXCEPT !.apps = SortById(self.apps)]

\* Vec::remove
Remove(s, pos) == SubSeq(s, 1, pos - 1) \o SubSeq(s, pos + 1, Len(s))

\* Iterator::position: the first index that satisfies the test, 0 when none
PositionById(apps, id) ==
    IF \E i \in 1..Len(apps) : apps[i].id = id
    THEN CHOOSE i \in 1..Len(apps) :
            apps[i].id = id /\ \A j \in 1..(i - 1) : apps[j].id # id
    ELSE 0

PositionByLogin(users, login) ==
    IF \E i \in 1..Len(users) : users[i].login = login
    THEN CHOOSE i \in 1..Len(users) :
            users[i].login = login /\ \A j \in 1..(i - 1) : users[j].login # login
    ELSE 0

\* the upsert of add_app as it would be if it pushed every payload
upsert_app_pushes(apps, payload) == Append(apps, payload)

\* add_app: the payload replaces the app that has its id, or is pushed
upsert_app(apps, payload) ==
    LET pos == PositionById(apps, payload.id)
    IN  IF pos # 0 THEN [apps EXCEPT ![pos] = payload] ELSE Append(apps, payload)

\* the bodies sent to POST /api/admin/apps and the ids sent to DELETE
AppPayloads ==
    { App(5, <<"n">>, TargetNoPort, TRUE, FALSE, <<>>),
      [AppFiles EXCEPT !.secured = FALSE] }

DeleteAppIds == { 1, 9 }

\* the bodies sent to POST /api/admin/users and the logins sent to DELETE
UserPayloads ==
    { User("bob", "pc", <<"USERS">>), User("alice", "", <<ADMINS_ROLE>>),
      User("carl", "", <<>>) }

DeleteUserLogins == { "alice", "ghost" }

\* get_apps
GetApps(reqs) ==
    /\ last = Idle
    /\ \E r \in reqs :
        /\ Dispatch(r, config_map) = "main_router"
        /\ \E xsrf \in XsrfDraws(r) :
            LET a == AdminToken_from_request_parts(r, key, config, now, xsrf)
            IN  last' =
                  IF ~a.res.ok THEN Rejected("get_apps", r, a)
                  ELSE Done("get_apps", r, None, a.res, a.by, None, FALSE, TRUE, FALSE,
                            Response(200, file.apps))
        /\ UNCHANGED <<file, config, config_map, key, now, tasks>>

\* delete_app
DeleteApp(reqs) ==
    /\ last = Idle
    /\ \E r \in reqs :
        /\ Dispatch(r, config_map) = "main_router"
        /\ \E xsrf \in XsrfDraws(r) :
            LET a == AdminToken_from_request_parts(r, key, config, now, xsrf)
            IN  IF ~a.res.ok
                THEN /\ last' = Rejected("delete_app", r, a)
                     /\ UNCHANGED file
                ELSE \E app_id \in DeleteAppIds :
                       LET pos == PositionById(file.apps, app_id)
                       IN  IF pos = 0
                           THEN /\ last' = Done("delete_app", r, Some(app_id), a.res, a.by,
                                                None, FALSE, TRUE, FALSE,
                                                Response(400, "app doesn't exist"))
                                /\ UNCHANGED file
                           ELSE \E written \in BOOLEAN :
                                /\ file' = IF ~written THEN file
                                           ELSE to_file_or_internal_server_error(
                                                  [file EXCEPT !.apps = Remove(file.apps, pos)])
                                /\ last' = Done("delete_app", r, Some(app_id), a.res, a.by,
                                                None, FALSE, TRUE, written,
                                                IF ~written THEN Panicked
                                                ELSE Response(200, "app deleted successfully"))
        /\ UNCHANGED <<config, config_map, key, now, tasks>>

\* add_app
AddApp(reqs) ==
    /\ last = Idle
    /\ \E r \in reqs :
        /\ Dispatch(r, config_map) = "main_router"
        /\ \E xsrf \in XsrfDraws(r) :
            LET a == AdminToken_from_request_parts(r, key, config, now, xsrf)
            IN  IF ~a.res.ok
                THEN /\ last' = Rejected("add_app", r, a)
                     /\ UNCHANGED file
                ELSE \E payload \in AppPayloads :
                     \E written \in BOOLEAN :
                       /\ file' = IF ~written THEN file
                                  ELSE to_file_or_internal_server_error(
                                         [config EXCEPT !.apps = upsert_app(config.apps, payload)])
                       /\ last' = Done("add_app", r, Some(payload), a.res, a.by,
                                       None, FALSE, FALSE, written,
                                       IF ~written THEN Panicked
                                       ELSE Response(201, "app created or updated successfully"))
        /\ UNCHANGED <<config, config_map, key, now, tasks>>

\* get_users
GetUsers(reqs) ==
    /\ last = Idle
    /\ \E r \in reqs :
        /\ Dispatch(r, config_map) = "main_router"
        /\ \E xsrf \in XsrfDraws(r) :
            LET a == AdminToken_from_request_parts(r, key, config, now, xsrf)
            IN  last' =
                  IF ~a.res.ok THEN Rejected("get_users", r, a)
                  ELSE Done("get_users", r, None, a.res, a.by, None, FALSE, TRUE, FALSE,
                            Response(200, file.users))
        /\ UNCHANGED <<file, config, config_map, key, now, tasks>>

\* delete_user
DeleteUser(reqs) ==
    /\ last = Idle
    /\ \E r \in reqs :
        /\ Dispatch(r, config_map) = "main_router"
        /\ \E xsrf \in XsrfDraws(r) :
            LET a == AdminToken_from_request_parts(r, key, config, now, xsrf)
            IN  IF ~a.res.ok
                THEN /\ last' = Rejected("delete_user", r, a)
                     /\ UNCHANGED file
                ELSE \E user_login \in DeleteUserLogins :
                       LET pos == PositionByLogin(file.users, user_login)
                       IN  IF pos = 0
                           THEN /\ last' = Done("delete_user", r, Some(user_login), a.res,
                                                a.by, None, FALSE, TRUE, FALSE,
                                                Response(400, "user does not exist"))
                                /\ UNCHANGED file
                           ELSE \E written \in BOOLEAN :
                                /\ file' = IF ~written THEN file
                                           ELSE to_file_or_internal_server_error(
                                                  [file EXCEPT !.users = Remove(file.users, pos)])
                                /\ last' = Done("delete_user", r, Some(user_login), a.res,
                                                a.by, None, FALSE, TRUE, written,
                                                IF ~written THEN Panicked
                                                ELSE Response(200, "user deleted successfully"))
        /\ UNCHANGED <<config, config_map, key, now, tasks>>

\* add_user
AddUser(reqs) ==
    /\ last = Idle
    /\ \E r \in reqs :
        /\ Dispatch(r, config_map) = "main_router"
        /\ \E xsrf \in XsrfDraws(r) :
            LET a == AdminToken_from_request_parts(r, key, config, now, xsrf)
            IN  IF ~a.res.ok
                THEN /\ last' = Rejected("add_user", r, a)
                     /\ UNCHANGED file
                ELSE \E payload \in UserPayloads :
                       LET pos == PositionByLogin(config.users, payload.login)
                           kept == IF payload.password # "" THEN payload
                                   ELSE [payload EXCEPT !.password = config.users[pos].password]
                       IN  IF pos = 0 /\ payload.password = ""
                           THEN /\ last' = Done("add_user", r, Some(payload), a.res, a.by,
                                                None, FALSE, FALSE, FALSE,
                                                Response(406, "password is required"))
                                /\ UNCHANGED file
                           ELSE \E written \in BOOLEAN :
                                /\ file' = IF ~written THEN file
                                           ELSE to_file_or_internal_server_error(
                                                  [config EXCEPT !.users =
                                                      IF pos # 0
                                                      THEN [config.users EXCEPT ![pos] = kept]
                                                      ELSE Append(config.users, payload)])
                                /\ last' = Done("add_user", r, Some(payload), a.res, a.by,
                                                None, FALSE, FALSE, written,
                                                IF ~written THEN Panicked
                                                ELSE Response(201, "user created or updated successfully"))
        /\ UNCHANGED <<config, config_map, key, now, tasks>>

\* ------------------------------------------------------------------- login

\* create_user_cookie: the cookie before the jar encrypts its value
create_user_cookie(user_token, hostname, c) ==
    [ name |-> AUTH_COOKIE,
      value |-> user_token,
      domain |-> BeforeFirst(hostname, ":"),
      path |-> "/", same_site |-> "Lax",
      secure |-> is_secure(c.tls_mode),
      max_age |-> SecondsPerDay *
          (IF c.session_duration_days.some THEN c.session_duration_days.v
           ELSE DefaultSessionDays),
      http_only |-> TRUE ]

\* the Host headers of the requests sent to POST /auth/local
LoginHosts ==
    { None, Some(Hostname), Some(Hostname \o Colon \o Port8080),
      Some(<<"A", "T", ".", "I", "O">>),
      Some(<<"A", "T", ".", "I", "O">> \o Colon \o Port8080),
      Some(HostUpper), Some(HostUnknown), Some(HostUnknown \o Colon \o Port8080) }

LoginRequests ==
    { Request(h, "/auth/local",
              [ cookie |-> None, xsrf |-> None, query |-> None, basic |-> None ]) :
         h \in LoginHosts }

\* the logins of the LocalAuth bodies
LoginPayloads == { "admin", "alice", "bob", "ghost" }

\* local_auth
LocalAuth(reqs) ==
    /\ last = Idle
    /\ \E r \in reqs :
        /\ Dispatch(r, config_map) = "main_router"
        /\ IF ~r.host.some
           THEN last' = Done("local_auth", r, None, Err(400, "No host found in request"),
                             "none", None, FALSE, FALSE, FALSE,
                             Response(400, "No host found in request"))
           ELSE \E login \in LoginPayloads, xsrf \in Xsrfs :
                  LET a == authenticate_local_user(config, login, now, xsrf)
                      cookie == create_user_cookie(a.token, r.host.v, config)
                  IN  last' =
                        IF ~a.ok
                        THEN Done("local_auth", r, Some(login), a, "none", None,
                                  FALSE, FALSE, FALSE, Response(a.status, a.msg))
                        ELSE Done("local_auth", r, Some(login), Ok(a.token), "login",
                                  None, FALSE, FALSE, FALSE,
                                  [ Response(200,
                                             [ is_admin |-> VecContains(a.user.roles, ADMINS_ROLE),
                                               xsrf_token |-> a.token.xsrf_token ])
                                    EXCEPT !.set_cookie =
                                      Some([ cookie EXCEPT
                                               !.value = Seal(key, AUTH_COOKIE, cookie.value) ]) ])
    /\ UNCHANGED <<file, config, config_map, key, now, tasks>>

\* ------------------------------------------- admin operations in parallel

\* the connections whose requests the runtime serves at the same time
Connections == 2

\* the file between the truncation and the write of tokio::fs::write, or
\* after two writers wrote over each other: not a configuration
Torn == [ torn |-> TRUE ]

\* a connection with no request
NoTask ==
    [ pc |-> "idle", handler |-> "none", arg |-> None, content |-> None,
      torn |-> FALSE, resp |-> None ]

\* the task of a request that has its response
Responded(handler, arg, torn, resp) ==
    [ pc |-> "done", handler |-> handler, arg |-> arg, content |-> None,
      torn |-> torn, resp |-> Some(resp) ]

\* the task of a request suspended at the await of its write, with the
\* content it is about to write
Writing(handler, arg, content) ==
    [ pc |-> "write", handler |-> handler, arg |-> arg, content |-> Some(content),
      torn |-> FALSE, resp |-> None ]

\* delete_app up to the await of its write: the extractor, then
\* config_or_error, whose from_file unwraps, then the removal
DeleteAppRead(t, reqs) ==
    /\ tasks[t].pc = "idle"
    /\ \E r \in reqs :
        /\ Dispatch(r, config_map) = "main_router"
        /\ \E xsrf \in XsrfDraws(r) :
            LET a == AdminToken_from_request_parts(r, key, config, now, xsrf)
            IN  IF ~a.res.ok
                THEN tasks' = [tasks EXCEPT ![t] =
                        Responded("delete_app", None, FALSE,
                                  Response(a.res.status, a.res.msg))]
                ELSE \E app_id \in DeleteAppIds :
                       tasks' = [tasks EXCEPT ![t] =
                         IF file = Torn
                         THEN Responded("delete_app", Some(app_id), TRUE, Panicked)
                         ELSE IF PositionById(file.apps, app_id) = 0
                         THEN Responded("delete_app", Some(app_id), FALSE,
                                        Response(400, "app doesn't exist"))
                         ELSE Writing("delete_app", Some(app_id),
                                to_file_or_internal_server_error(
                                  [file EXCEPT !.apps =
                                     Remove(file.apps, PositionById(file.apps, app_id))]))]
    /\ UNCHANGED <<file, config, config_map, key, now, last>>

\* delete_user up to the await of its write
DeleteUserRead(t, reqs) ==
    /\ tasks[t].pc = "idle"
    /\ \E r \in reqs :
        /\ Dispatch(r, config_map) = "main_router"
        /\ \E xsrf \in XsrfDraws(r) :
            LET a == AdminToken_from_request_parts(r, key, config, now, xsrf)
            IN  IF ~a.res.ok
                THEN tasks' = [tasks EXCEPT ![t] =
                        Responded("delete_user", None, FALSE,
                                  Response(a.res.status, a.res.msg))]
                ELSE \E user_login \in DeleteUserLogins :
                       tasks' = [tasks EXCEPT ![t] =
                         IF file = Torn
                         THEN Responded("delete_user", Some(user_login), TRUE, Panicked)
                         ELSE IF PositionByLogin(file.users, user_login) = 0
                         THEN Responded("delete_user", Some(user_login), FALSE,
                                        Response(400, "user does not exist"))
                         ELSE Writing("delete_user", Some(user_login),
                                to_file_or_internal_server_error(
                                  [file EXCEPT !.users =
                                     Remove(file.users,
                                            PositionByLogin(file.users, user_login))]))]
    /\ UNCHANGED <<file, config, config_map, key, now, last>>

\* tokio::fs::write, first half: the file is created over the old one,
\* which truncates it
FileOpen(t) ==
    /\ tasks[t].pc = "write"
    /\ file' = Torn
    /\ tasks' = [tasks EXCEPT ![t].pc = "opened"]
    /\ UNCHANGED <<config, config_map, key, now, last>>

\* tokio::fs::write, second half: the content is written from offset 0; over
\* what another writer wrote since the truncation the result is that
\* content or a mix of the two; then the handler responds
FileWrite(t) ==
    /\ tasks[t].pc = "opened"
    /\ \E result \in IF file = Torn THEN { tasks[t].content.v }
                      ELSE { tasks[t].content.v, Torn } :
          file' = result
    /\ tasks' = [tasks EXCEPT ![t] =
          Responded(tasks[t].handler, tasks[t].arg, FALSE,
                    Response(200, IF tasks[t].handler = "delete_app"
                                  THEN "app deleted successfully"
                                  ELSE "user deleted successfully"))]
    /\ UNCHANGED <<config, config_map, key, now, last>>

\* the response is sent and the connection takes its next request
Respond(t) ==
    /\ tasks[t].pc = "done"
    /\ tasks' = [tasks EXCEPT ![t] = NoTask]
    /\ UNCHANGED <<file, config, config_map, key, now, last>>

\* ------------------------------------------------------------ specification

\* the clock advances between requests
Tick ==
    /\ last = Idle
    /\ now < MaxTime
    /\ now' = now + 1
    /\ UNCHANGED <<file, config, config_map, key, last, tasks>>

\* the response is sent and the request's state dropped
Complete ==
    /\ last # Idle
    /\ last' = Idle
    /\ UNCHANGED <<file, config, config_map, key, now, tasks>>

\* the state once Server::build has returned
Init ==
    /\ file = Loaded.file
    /\ config = Loaded.config
    /\ config_map = Loaded.config_map
    /\ key = Loaded.config.cookie_key.v
    /\ now = 0
    /\ last = Idle
    /\ tasks = <<>>

\* the whole server, with the requests of the sessions the login page opens
Next ==
    \/ ProxyHandler(SessionAppRequests)
    \/ Whoami(SessionWhoamiRequests)
    \/ GetApps(SessionAppsRequests)
    \/ AddApp(SessionAppsRequests)
    \/ DeleteApp(SessionAppRequestsById)
    \/ GetUsers(SessionUsersRequests)
    \/ AddUser(SessionUsersRequests)
    \/ DeleteUser(SessionUserRequestsByLogin)
    \/ Tick
    \/ Complete

Spec == Init /\ [][Next]_vars

\* the endpoints that leave the configuration file alone, with every
\* credential a request can present
NextAuth ==
    \/ ProxyHandler(AllAppRequests)
    \/ Whoami(AllWhoamiRequests)
    \/ GetApps(AllAppsRequests)
    \/ GetUsers(AllUsersRequests)
    \/ Tick
    \/ Complete

SpecAuth == Init /\ [][NextAuth]_vars

\* the proxy pipeline alone, with what it makes of the request it forwards
NextProxy ==
    \/ ProxyHandler(ProxyRequests)
    \/ Tick
    \/ Complete

SpecProxy == Init /\ [][NextProxy]_vars

\* the dispatcher in front of the three routers
NextRoute ==
    \/ ProxyHandler(RouteRequests)
    \/ DirHandler(RouteRequests)
    \/ Whoami(RouteRequests)
    \/ Tick
    \/ Complete

SpecRoute == Init /\ [][NextRoute]_vars

\* the login endpoint
NextLogin ==
    \/ LocalAuth(LoginRequests)
    \/ Tick
    \/ Complete

SpecLogin == Init /\ [][NextLogin]_vars

\* the credentials of the administrators' browsers: the session cookie and
\* the XSRF-TOKEN header
BrowserCreds == { c \in SessionCreds : c.cookie.some /\ c.xsrf.some /\ ~c.basic.some }

\* the server with its connections idle
InitConc ==
    /\ file = Loaded.file
    /\ config = Loaded.config
    /\ config_map = Loaded.config_map
    /\ key = Loaded.config.cookie_key.v
    /\ now = 0
    /\ last = Idle
    /\ tasks = [ t \in 1..Connections |-> NoTask ]

\* the delete endpoints, which read the file and write it back, served on
\* several connections at once: tokio runs each request as a task that
\* another task can overtake at every await
NextConc ==
    \E t \in 1..Connections :
        \/ DeleteAppRead(t, MainRequests(BrowserCreds, "/api/admin/apps/:app_id"))
        \/ DeleteUserRead(t, MainRequests(BrowserCreds, "/api/admin/users/:user_login"))
        \/ FileOpen(t)
        \/ FileWrite(t)
        \/ Respond(t)

SpecConc == InitConc /\ [][NextConc]_vars

\* the administration of users with the two ways a login becomes a token
NextUsers ==
    \/ LocalAuth(LoginRequests)
    \/ Whoami(SessionWhoamiRequests)
    \/ AddUser(SessionUsersRequests)
    \/ DeleteUser(SessionUserRequestsByLogin)
    \/ Tick
    \/ Complete

SpecUsers == Init /\ [][NextUsers]_vars

\* the server before Server::build has read its configuration file
Start == [ handler |-> "start" ]

InitLoad ==
    /\ file \in LoadFiles
    /\ config = None
    /\ config_map = <<>>
    /\ key = ""
    /\ now = 0
    /\ last = Start
    /\ tasks = <<>>

\* load_config, called by Server::build
LoadConfig ==
    /\ last = Start
    /\ \E env \in MainHostnames :
        LET loaded == load_config(file, "k", env)
        IN  /\ file' = loaded.file
            /\ config' = loaded.config
            /\ config_map' = loaded.config_map
            /\ key' = loaded.config.cookie_key.v
            /\ last' = [ handler |-> "load_config", env |-> env ]
    /\ UNCHANGED <<now, tasks>>

\* Config::domains, called on the configuration that load_config returned
Domains ==
    /\ last.handler = "load_config"
    /\ last' = [ handler |-> "domains", result |-> domains(config) ]
    /\ UNCHANGED <<file, config, config_map, key, now, tasks>>

NextLoad ==
    \/ LoadConfig
    \/ Domains

SpecLoad == InitLoad /\ [][NextLoad]_vars

\* ================================================================== claims

AdminHandlers ==
    { "get_apps", "add_app", "delete_app", "get_users", "add_user", "delete_user" }

StrictHandlers == AdminHandlers \cup { "whoami" }

\* the elements of a Vec
Elems(v) == { v[i] : i \in 1..Len(v) }

\* the Host value of the request in flight without its port, its resolved
\* binding, and the token its handler extracted
LastDomain == BeforeFirst(last.req.host.v, ":")

LastApp == config_map[LastDomain]

LastUser == IF last.auth.ok THEN Some(last.auth.token) ELSE None

\* the payload the request's ATRIUM_AUTH cookie decrypts to, if it does
LastCookie ==
    IF /\ last.req.cookie.some
       /\ last.req.cookie.v.key = key
       /\ last.req.cookie.v.name = AUTH_COOKIE
    THEN Some(last.req.cookie.v.payload)
    ELSE None

\* the request's cookie decrypts to a token
LastCookieIsToken == LastCookie.some /\ LastCookie.v # NotJson

\* a share scope names exactly this host and path
ShareMatches(token, host, path) ==
    token.share.some => token.share.v.hostname = host /\ token.share.v.path = path

\* the decision table's pass condition
Passes(service, user, host, path) ==
    \/ ~HostType_secured(service)
    \/ /\ user.some
       /\ Elems(user.v.roles) \cap Elems(HostType_roles(service)) # {}
       /\ ShareMatches(user.v, host, path)

\* C1: check_authorization is the ordered decision table: it passes iff the
\* service is not secured, or a user is present, shares a role with the
\* service and has no share scope or one that names the request's host and
\* path; it answers 401 with WWW-Authenticate: Basic realm="server" iff the
\* service is secured and no user is present; it answers 403 in every other
\* case, so a secured service with no roles is closed to every user.
C1_DecisionTable ==
    last.handler = "proxy_handler" =>
        LET pass == Passes(LastApp, LastUser, LastDomain, last.req.path)
            absent == HostType_secured(LastApp) /\ ~LastUser.some
        IN  /\ last.authz = None <=> pass
            /\ (/\ last.authz.some
                /\ last.authz.v.status = 401
                /\ last.authz.v.www_authenticate = Some("Basic realm=\"server\""))
                  <=> absent
            /\ (last.authz.some /\ last.authz.v.status = 403)
                  <=> (~pass /\ ~absent)
            /\ last.authz.some => last.authz.v.status \in { 401, 403 }
            /\ (/\ HostType_secured(LastApp)
                /\ HostType_roles(LastApp) = <<>>
                /\ LastUser.some) => last.authz = Some(Response(403, ""))

\* a share-scoped token passes the check of a secured app on its own path
C1_Witness ==
    /\ last.handler = "proxy_handler"
    /\ HostType_secured(LastApp)
    /\ LastUser.some
    /\ LastUser.v.share.some
    /\ last.authz = None

\* the token in the cookie is one the spec calls unexpired at the time of the
\* check: it expires later than now
Unexpired(token, at) == token.expires > at

\* C2: for a secured app the proxy pipeline reaches the request-rewriting
\* stage only if the request carried an ATRIUM_AUTH cookie that decrypts to
\* an unexpired token whose roles intersect the app's and whose share scope,
\* if any, names the request's host and path; otherwise it answers 302, 401
\* or 403 without rewriting anything.
C2_ForwardOnlyIfAuthorized ==
    (last.handler = "proxy_handler" /\ HostType_secured(LastApp)) =>
        IF /\ LastCookieIsToken
           /\ Unexpired(LastCookie.v, last.at)
           /\ Elems(LastCookie.v.roles) \cap Elems(HostType_roles(LastApp)) # {}
           /\ ShareMatches(LastCookie.v, LastDomain, last.req.path)
        THEN TRUE
        ELSE ~last.forwarded /\ last.resp.status \in { 302, 401, 403 }

\* C3 as stated: a secured app with an empty roles list lets every
\* authenticated user in.
C3_EmptyRolesAllowAll ==
    (/\ last.handler = "proxy_handler"
     /\ HostType_secured(LastApp)
     /\ HostType_roles(LastApp) = <<>>
     /\ LastUser.some) => last.authz = None

\* C3 amended: a secured app with an empty roles list lets no user in: for
\* every user token the check answers 403 and the proxy pipeline returns that
\* 403 without entering the rewriting stage.
C3_EmptyRolesAllowNone ==
    (/\ last.handler = "proxy_handler"
     /\ HostType_secured(LastApp)
     /\ HostType_roles(LastApp) = <<>>
     /\ LastUser.some)
        => /\ last.authz.some
           /\ last.authz.v.status = 403
           /\ last.resp.status = 403
           /\ ~last.forwarded

\* a user who holds roles asks for the secured app that lists none
C3_Witness ==
    /\ last.handler = "proxy_handler"
    /\ HostType_secured(LastApp)
    /\ HostType_roles(LastApp) = <<>>
    /\ LastUser.some
    /\ LastUser.v.roles # <<>>
    /\ last.resp.status = 403

\* the request in flight was served as an authenticated one
ServedAsAuthenticated ==
    \/ last.handler \in StrictHandlers /\ last.auth.ok
    \/ /\ last.handler = "proxy_handler"
       /\ HostType_secured(LastApp)
       /\ last.auth.ok
       /\ last.forwarded

\* C4: no pipeline serves a request as authenticated with a share-scoped
\* token unless the request's host and path are the ones the share names,
\* whichever credential mode carried the token.
C4_ShareScopeEverywhere ==
    (/\ last # Idle
     /\ ServedAsAuthenticated
     /\ last.auth.token.share.some)
        => /\ last.auth.token.share.v.hostname = LastDomain
           /\ last.auth.token.share.v.path = last.req.path

\* C5: every token an extractor accepts expires later than the clock read by
\* the check; a token with expires <= now, expires = now included, is
\* rejected.
C5_AcceptedExpiresLater ==
    (last # Idle /\ last.auth.ok) => last.auth.token.expires > last.at

\* the token's expiry has passed when the handler reads the clock
Expired(token, at) == token.expires < at

\* the token a credential value carries when this server sealed it under one
\* of the names, if it carries one
SealedToken(value, names) ==
    IF value.key = key /\ value.name \in names /\ value.payload # NotJson
    THEN Some(value.payload)
    ELSE None

\* the strict extractor's cookie mode applies: the ATRIUM_AUTH cookie
\* decrypts and the request has an XSRF-TOKEN header
CookieTrigger == LastCookie.some /\ last.req.xsrf.some

\* C6: in every credential mode (cookie with XSRF, ?token=, Basic with the
\* token as password, cookie alone in the proxy pipeline) a request that
\* presents a token whose expiry has passed is answered 403 Forbidden and is
\* not served as an authenticated request.
C6_ExpiredIsForbidden ==
    /\ (/\ last.handler = "proxy_handler"
        /\ HostType_secured(LastApp)
        /\ LastCookieIsToken
        /\ Expired(LastCookie.v, last.at))
          => last.resp.status = 403 /\ ~last.forwarded
    /\ (/\ last.handler \in StrictHandlers
        /\ CookieTrigger
        /\ LastCookieIsToken
        /\ Expired(LastCookie.v, last.at))
          => last.resp.status = 403 /\ ~last.auth.ok
    /\ (/\ last.handler \in StrictHandlers
        /\ ~CookieTrigger
        /\ last.req.query.some
        /\ SealedToken(last.req.query.v, { AUTH_COOKIE, SHARE_TOKEN }).some
        /\ Expired(SealedToken(last.req.query.v, { AUTH_COOKIE, SHARE_TOKEN }).v, last.at))
          => last.resp.status = 403 /\ ~last.auth.ok
    /\ (/\ last.handler \in StrictHandlers
        /\ ~CookieTrigger
        /\ ~last.req.query.some
        /\ last.req.basic.some
        /\ SealedToken(last.req.basic.v.password, { AUTH_COOKIE }).some
        /\ Expired(SealedToken(last.req.basic.v.password, { AUTH_COOKIE }).v, last.at))
          => last.resp.status = 403 /\ ~last.auth.ok

\* C7: in the strict extractor's cookie mode, with an unexpired token T in the
\* ATRIUM_AUTH cookie: an XSRF-TOKEN header that differs from T.xsrf_token is
\* answered 403 "xsrf token doesn't match"; one that equals it makes the
\* extractor yield exactly T (which an admin endpoint then accepts if T holds
\* the ADMINS role and answers 401 if not).
C7_XsrfInCookieMode ==
    (/\ last.handler \in StrictHandlers
     /\ LastCookieIsToken
     /\ Unexpired(LastCookie.v, last.at)
     /\ last.req.xsrf.some)
        => IF last.req.xsrf.v # LastCookie.v.xsrf_token
           THEN /\ ~last.auth.ok
                /\ last.resp = Response(403, "xsrf token doesn't match")
           ELSE IF last.handler = "whoami" \/ ADMINS_ROLE \in Elems(LastCookie.v.roles)
           THEN last.auth = Ok(LastCookie.v)
           ELSE last.auth = Err(401, "user is not in admin group")

\* whoami is asked with the cookie and the matching header
C7_Witness ==
    /\ last.handler = "whoami"
    /\ LastCookieIsToken
    /\ last.req.xsrf.some
    /\ last.req.xsrf.v = LastCookie.v.xsrf_token
    /\ ~last.req.query.some
    /\ ~last.req.basic.some
    /\ last.auth = Ok(LastCookie.v)

C9_CookieAloneTriggers ==
    last.handler \in StrictHandlers =>
        /\ last.req.cookie.some => last.by = "cookie"
        /\ (~last.req.cookie.some /\ last.req.query.some) => last.by = "query"
        /\ (~last.req.cookie.some /\ ~last.req.query.some /\ last.req.basic.some)
              => last.by = "basic"
        /\ (~last.req.cookie.some /\ ~last.req.query.some /\ ~last.req.basic.some)
              => last.resp.status = 401

\* the request in flight with only the credential of one mode left
OnlyCookie == [last.req EXCEPT !.query = None, !.basic = None]

OnlyQuery == [last.req EXCEPT !.cookie = None, !.xsrf = None, !.basic = None]

OnlyBasic == [last.req EXCEPT !.cookie = None, !.xsrf = None, !.query = None]

\* C9 amended: the strict extractor is the ordered chain cookie+XSRF, query
\* ?token=, HTTP Basic, where the cookie mode's trigger is an ATRIUM_AUTH
\* cookie that decrypts under the server's key together with an XSRF-TOKEN
\* header: the first mode whose trigger is present decides the outcome, which
\* is the one the request would get with the other modes' credentials
\* removed; a query token is tried as ATRIUM_AUTH first and as SHARE_TOKEN
\* only when that fails, so the answer to a failure is the second try's; with
\* no trigger present the result is 401.
C9_FirstTriggerDecides ==
    last.handler \in StrictHandlers =>
        /\ CookieTrigger => last.by = "cookie"
        /\ (~CookieTrigger /\ last.req.query.some) => last.by = "query"
        /\ (~CookieTrigger /\ ~last.req.query.some /\ last.req.basic.some)
              => last.by = "basic"
        /\ (~CookieTrigger /\ ~last.req.query.some /\ ~last.req.basic.some)
              => /\ last.by = "none"
                 /\ last.resp = Response(401, "no user found or xsrf token not provided")
        /\ (last.handler = "whoami" /\ last.by = "cookie")
              => last.auth = UserToken_from_request_parts(
                                 OnlyCookie, key, config, last.at, "x1").res
        /\ (last.handler = "whoami" /\ last.by = "query")
              => last.auth = UserToken_from_request_parts(
                                 OnlyQuery, key, config, last.at, "x1").res
        /\ (last.handler = "whoami" /\ last.by = "basic")
              => \E xsrf \in Xsrfs :
                    last.auth = UserToken_from_request_parts(
                                    OnlyBasic, key, config, last.at, xsrf).res
        /\ (/\ last.handler = "whoami"
            /\ last.by = "query"
            /\ SealedToken(last.req.query.v, { AUTH_COOKIE, SHARE_TOKEN }).some)
              => LET t == SealedToken(last.req.query.v, { AUTH_COOKIE, SHARE_TOKEN }).v
                 IN  /\ Unexpired(t, last.at) => last.auth = Ok(t)
                     /\ (Expired(t, last.at) /\ last.req.query.v.name = AUTH_COOKIE)
                           => last.auth = Err(500, "could not decrypt user token")
                     /\ (Expired(t, last.at) /\ last.req.query.v.name = SHARE_TOKEN)
                           => last.auth = Err(403, "user token is expired")

\* the three credentials are all present and the cookie decides
C9_Witness ==
    /\ last.handler = "whoami"
    /\ CookieTrigger
    /\ last.req.query.some
    /\ last.req.basic.some
    /\ last.by = "cookie"
    /\ ~last.auth.ok

\* the strict extractor finds a token that lacks the ADMINS role
ExtractsNonAdmin(r) ==
    \E xsrf \in Xsrfs :
        LET u == UserToken_from_request_parts(r, key, config, now, xsrf).res
        IN  u.ok /\ ~VecContains(u.token.roles, ADMINS_ROLE)

\* C10: an admin endpoint reads or writes the configuration file only when
\* the strict extractor gave a token whose roles contain ADMINS; a request
\* whose token lacks that role is answered 401 and leaves the file as it was.
C10_AdminOnly ==
    [][ (last = Idle /\ last'.handler \in AdminHandlers) =>
          /\ (last'.fread \/ last'.fwrite \/ file' # file)
                => /\ last'.auth.ok
                   /\ ADMINS_ROLE \in Elems(last'.auth.token.roles)
                   /\ \E xsrf \in Xsrfs :
                        UserToken_from_request_parts(
                            last'.req, key, config, now, xsrf).res = last'.auth
          /\ ExtractsNonAdmin(last'.req)
                => /\ last'.resp.status = 401
                   /\ ~last'.fread
                   /\ ~last'.fwrite
                   /\ file' = file ]_vars

\* an admin endpoint turns away a token that lacks the ADMINS role
C10_Witness ==
    /\ last.handler \in { "add_app", "delete_app", "add_user", "delete_user" }
    /\ last.auth = Err(401, "user is not in admin group")
    /\ last.resp.status = 401

\* the binding of the request in flight in the proxy pipeline
LastBinding == LastApp.app

\* C11: when the authorization check answers 401 for a proxied app, the proxy
\* pipeline answers 302 Found with Location = Config.full_domain() and the
\* cookie ATRIUM_REDIRECT = <scheme>://<Host value with its port>, Domain =
\* Config.domain, Path = /, SameSite = Lax, Max-Age = 60, not HttpOnly; a
\* 403 from the check is returned as it is, without Location or cookie.
C11_RedirectToLogin ==
    (last.handler = "proxy_handler" /\ last.authz.some) =>
        /\ last.authz.v.status = 401 =>
              /\ last.resp.status = 302
              /\ last.resp.location = Some(full_domain(config))
              /\ last.resp.location =
                    Some(<<"h", "t", "t", "p", ":", "/", "/">> \o Hostname \o Colon \o Port8080)
              /\ last.resp.set_cookie =
                    Some([ name |-> "ATRIUM_REDIRECT",
                           value |-> scheme(config) \o <<":", "/", "/">> \o last.req.host.v,
                           domain |-> config.domain, path |-> "/",
                           same_site |-> "Lax", secure |-> FALSE,
                           max_age |-> 60, http_only |-> FALSE ])
        /\ last.authz.v.status = 403 =>
              /\ last.resp = last.authz.v
              /\ last.resp.status = 403
              /\ last.resp.location = None
              /\ last.resp.set_cookie = None

\* a request without a session asks for the secured app on its port
C11_Witness ==
    /\ last.handler = "proxy_handler"
    /\ last.req.host.v = HostFiles \o Colon \o Port8080
    /\ ~last.req.cookie.some
    /\ last.resp.status = 302
    /\ last.resp.set_cookie.v.value =
          <<"h", "t", "t", "p", ":", "/", "/">> \o HostFiles \o Colon \o Port8080

\* C12: for an authorized proxied request, an app whose login and password
\* are both non-empty makes the outgoing request carry exactly one
\* Authorization header, Basic base64(login:password), in place of any
\* inbound one; when either is empty the inbound Authorization header,
\* present or absent, is left as it came.
C12_ForgedBasicAuth ==
    (last.handler = "proxy_handler" /\ last.forwarded) =>
        LET inner == LastBinding.inner
        IN  IF inner.login # <<>> /\ inner.password # <<>>
            THEN /\ Len(last.out.authorization) = 1
                 /\ last.out.authorization[1].scheme = "Basic"
                 /\ last.out.authorization[1].credentials =
                        encode_string(as_bytes(inner.login \o <<":">> \o inner.password))
                 /\ (inner.login = <<"u">> /\ inner.password = <<"p">>)
                        => last.out.authorization[1].credentials = <<"d", "T", "p", "w">>
            ELSE last.out.authorization =
                    (IF last.req.basic.some THEN << last.req.basic.v >> ELSE <<>>)

\* an authorized request that brings its own Authorization header reaches the
\* app that has upstream credentials
C12_Witness ==
    /\ last.handler = "proxy_handler"
    /\ last.forwarded
    /\ last.req.basic.some
    /\ LastBinding.inner.login = <<"u">>
    /\ LastBinding.inner.password = <<"p">>
    /\ last.out.authorization =
          << [ scheme |-> "Basic", credentials |-> <<"d", "T", "p", "w">> ] >>

\* the target of the app names a port after its host
TargetHasPort(app) == Contains(TargetAuthority(app.target), <<":">>)

\* C13: for an authorized proxied request, X-Forwarded-Host (the binding's
\* public authority, with :8080 when the port hint is set) and
\* X-Forwarded-Proto (the public scheme) are set on the outgoing request
\* exactly when the upstream target's authority has an explicit port.
C13_ForwardedHeaders ==
    (last.handler = "proxy_handler" /\ last.forwarded) =>
        IF TargetHasPort(LastBinding.inner)
        THEN /\ last.out.x_forwarded_host =
                    Some(LastBinding.inner.host \o Dot \o config.hostname
                           \o (IF is_secure(config.tls_mode) THEN <<>>
                               ELSE Colon \o Port8080))
             /\ last.out.x_forwarded_proto =
                    Some(IF is_secure(config.tls_mode) THEN "https" ELSE "http")
        ELSE /\ last.out.x_forwarded_host = None
             /\ last.out.x_forwarded_proto = None

\* an authorized request reaches the app whose upstream has a port, through
\* the app's subdomain
C13_Witness ==
    /\ last.handler = "proxy_handler"
    /\ last.forwarded
    /\ last.req.host.v = HostSub
    /\ last.out.x_forwarded_host = Some(HostFiles \o Colon \o Port8080)
    /\ last.out.x_forwarded_proto = Some("http")

\* C14: for an authorized proxied request to an app with forward_user_mail,
\* the outgoing request carries Remote-User, set to the authenticated user's
\* mail address.
C14_RemoteUser ==
    (/\ last.handler = "proxy_handler"
     /\ last.forwarded
     /\ LastBinding.inner.forward_user_mail
     /\ last.auth.ok
     /\ last.auth.token.info.some)
        => last.out.remote_user = Some(last.auth.token.info.v.email)

\* C15: every request that passes authorization in the proxy pipeline makes
\* one upstream invocation, whose URI has the binding's forward scheme and
\* authority and the inbound path, and the client is answered with the
\* upstream's response.
C15_UpstreamInvoked ==
    (last.handler = "proxy_handler" /\ last.forwarded) =>
        /\ Len(last.out.upstream) = 1
        /\ last.out.uri = [ scheme |-> Some(LastBinding.forward_scheme),
                            authority |-> Some(LastBinding.forward_authority),
                            path |-> last.req.path ]
        /\ last.out.resp_from = "upstream"

\* the router a handler belongs to
RouterOf(handler) ==
    CASE handler = "proxy_handler" -> "proxy_router"
      [] handler = "dir_handler" -> "dir_router"
      [] OTHER -> "main_router"

\* str::to_lowercase
ToLower(s) ==
    [ i \in 1..Len(s) |->
        IF s[i] \in { UpperCase[k] : k \in 1..26 }
        THEN LowerCase[IndexIn(UpperCase, s[i])] ELSE s[i] ]

\* the router of the binding that a routing-table key stands for, the
\* management router when the table has no such key
RouterOfKey(k) ==
    IF k \notin DOMAIN config_map THEN "main_router"
    ELSE IF config_map[k].kind = "StaticApp" THEN "dir_router" ELSE "proxy_router"

\* C16: host resolution lowercases the Host value, strips a :port suffix and
\* looks the result up in the routing table, so that Host values that differ
\* only in letter case or in the port suffix resolve to the same binding, and
\* a miss resolves to no binding.
C16_HostResolution ==
    (last # Idle /\ last.req.host.some) =>
        LET k == ToLower(BeforeFirst(last.req.host.v, ":"))
        IN  /\ RouterOf(last.handler) = RouterOfKey(k)
            /\ last.handler = "proxy_handler" => LastApp = config_map[k]

\* C17: the dispatcher sends every request to one sub-pipeline that only the
\* resolved binding determines: a StaticApp to the static pipeline, a
\* ReverseApp to the proxy pipeline, and no binding (the management hostname
\* or a host the routing table does not have) to the management router.
C17_DispatchByBinding ==
    last # Idle =>
        LET hostype == HostType_from_request_parts(last.req, config_map)
        IN  /\ last.handler = "dir_handler"
                  <=> (hostype.ok /\ hostype.target.kind = "StaticApp")
            /\ last.handler = "proxy_handler"
                  <=> (hostype.ok /\ hostype.target.kind = "ReverseApp")
            /\ RouterOf(last.handler) = "main_router" <=> ~hostype.ok
            /\ (last.req.host.some /\ BeforeFirst(last.req.host.v, ":") = HostStatic)
                  => last.handler = "dir_handler"
            /\ (last.req.host.some
                /\ BeforeFirst(last.req.host.v, ":") \in { HostFiles, HostSub })
                  => last.handler = "proxy_handler"
            /\ (last.req.host.some
                /\ BeforeFirst(last.req.host.v, ":") \in { Hostname, HostUnknown })
                  => last.handler = "whoami"

\* the static app's host, with its port, reaches the static pipeline
C17_Witness ==
    /\ last # Idle
    /\ last.handler = "dir_handler"
    /\ last.req.host = Some(HostStatic \o Colon \o Port8080)

\* C18: a request without a Host header is answered 404 by the dispatcher
\* and reaches none of the three sub-pipelines.
C18_NoHostIs404 ==
    (last # Idle /\ ~last.req.host.some) =>
        /\ last.resp.status = 404
        /\ last.handler \notin { "proxy_handler", "dir_handler", "whoami" } \cup AdminHandlers

RECURSIVE SumOver(_, _)
\* the sum of f over the elements of a finite set
SumOver(set, f) ==
    IF set = {} THEN 0
    ELSE LET x == CHOOSE y \in set : TRUE
         IN  f[x] + SumOver(set \ {x}, f)

\* the apps that load_config selected
Selected == filter_services(config.apps, config.hostname, config.domain)

\* C19: the routing table built by load_config has, for each app the filter
\* selects, one base entry <slug>.<hostname> and one entry
\* <subdomain>.<slug>.<hostname> per declared subdomain, each bound to that
\* app, and as many entries as there are selected apps and declared
\* subdomains together, also when two selected apps share their first label
\* or a subdomain entry coincides with another entry.
C19_OneEntryPerName ==
    last.handler = "load_config" =>
        /\ \A i \in Selected :
              /\ BaseKey(config.apps[i], config) \in DOMAIN config_map
              /\ config_map[BaseKey(config.apps[i], config)].app.inner = config.apps[i]
              /\ \A j \in 1..Len(config.apps[i].subdomains) :
                    /\ SubKey(config.apps[i].subdomains[j], config.apps[i], config)
                          \in DOMAIN config_map
                    /\ config_map[SubKey(config.apps[i].subdomains[j], config.apps[i],
                                         config)].app.inner = config.apps[i]
        /\ Cardinality(DOMAIN config_map) =
              Cardinality(Selected)
                + SumOver(Selected, [ i \in Selected |-> Len(config.apps[i].subdomains) ])

\* C20: for the configuration that load_config returns, the hostnames that
\* Config::domains gives are, as a set, the keys of the routing table
\* returned with it together with the hostname.
C20_DomainsAreKeys ==
    last.handler = "domains" =>
        Elems(last.result) = DOMAIN config_map \cup { config.hostname }

\* two selected apps share their slug and one of them repeats a subdomain:
\* domains() names the same host more than once and the table has it once
C20_Witness ==
    /\ last.handler = "domains"
    /\ Cardinality(Selected) = 2
    /\ Len(last.result) = 6
    /\ Cardinality(DOMAIN config_map) = 2

\* ------------------------------------------------ the configuration file

\* the endpoints that write the configuration file
WriteHandlers == { "add_app", "delete_app", "add_user", "delete_user" }

\* the request in flight wrote the configuration file
Wrote == last # Idle /\ last.handler \in WriteHandlers /\ last.fwrite

\* the request in flight got as far as its write, which failed
WriteFailed ==
    /\ last # Idle
    /\ last.handler \in WriteHandlers
    /\ last.auth.ok
    /\ ~last.fwrite
    /\ last.resp.status \notin { 400, 406 }

SortedById(apps) == \A i \in 1..(Len(apps) - 1) : apps[i].id <= apps[i + 1].id

\* C21: once an admin write has succeeded, the list of apps in the
\* configuration file is in ascending order of id.
C21_SortedAfterWrite == Wrote => SortedById(file.apps)

C21_Witness ==
    /\ Wrote
    /\ last.handler = "add_user"
    /\ ~SortedById(config.apps)
    /\ SortedById(file.apps)

\* C22: GET /api/admin/apps answers an administrator with 200 and the apps
\* in ascending order of id, whatever the configuration file was at startup
\* and whether or not an admin operation has been made.
C22_ListIsSorted ==
    (last # Idle /\ last.handler = "get_apps" /\ last.auth.ok)
        => last.resp.status = 200 /\ SortedById(last.resp.body)

\* C23: once a write has succeeded, the Config and the routing table in
\* memory are those of the written file, and the routing table is always
\* the one of the Config in memory.
C23_MemoryFollowsFile ==
    /\ Wrote => /\ Elems(config.apps) = Elems(file.apps)
                /\ config.users = file.users
                /\ config_map = load_config(file, key, None).config_map
    /\ config_map = load_config(config, key, None).config_map

\* C24: every step leaves in the file the list of apps an in-order upsert
\* or delete makes of the list that was there before it (add_app upserts,
\* delete_app deletes, the other endpoints leave the list alone), and
\* get_apps returns the list of the file.
C24_CrudIsSequential ==
    [][ (last = Idle /\ last' # Idle /\ last'.handler \in AdminHandlers)
          => LET expected ==
                   IF last'.handler = "add_app" /\ last'.resp.status = 201
                   THEN upsert_app(file.apps, last'.arg.v)
                   ELSE IF last'.handler = "delete_app" /\ last'.resp.status = 200
                   THEN Remove(file.apps, PositionById(file.apps, last'.arg.v))
                   ELSE file.apps
             IN  /\ Elems(file'.apps) = Elems(expected)
                 /\ (last'.handler = "get_apps" /\ last'.resp.status = 200)
                        => Elems(last'.resp.body) = Elems(file.apps) ]_vars

\* C25: no two apps of the configuration file have the same id.
C25_IdsUnique ==
    \A i, j \in 1..Len(file.apps) : file.apps[i].id = file.apps[j].id => i = j

C25_Witness ==
    /\ Wrote
    /\ last.handler = "add_app"
    /\ last.arg.v.id = AppFiles.id
    /\ last.arg.v # AppFiles
    /\ Len(file.apps) = Len(config.apps)
    /\ last.arg.v \in Elems(file.apps)

\* C26: an admin operation whose write of the configuration file fails
\* answers 500 "could not save configuration".
C26_WriteFailureIs500 ==
    WriteFailed => /\ last.resp.status = 500
                   /\ last.resp.body = "could not save configuration"

StoredPasswords == { file.users[i].password : i \in 1..Len(file.users) } \ { "" }

\* C30: no endpoint returns a stored password: whoami returns "REDACTED" in
\* its place and the users that get_users lists carry none.
C30_PasswordsRedacted ==
    (last # Idle /\ last.resp.status = 200)
        => /\ last.handler = "whoami" => last.resp.body.password = REDACTED
           /\ last.handler = "get_users"
                => \A i \in 1..Len(last.resp.body) :
                      last.resp.body[i].password \notin StoredPasswords

\* C29: the ATRIUM_AUTH cookie that a login issues has the Domain of the
\* configuration, whatever the Host header of the login request, and Path /,
\* SameSite Lax, Secure as the TLS mode has it, HttpOnly, and a Max-Age of
\* session_duration_days days (1 when unset) in seconds.
C29_LoginCookie ==
    (last # Idle /\ last.handler = "local_auth" /\ last.resp.status = 200)
        => /\ last.resp.set_cookie.some
           /\ LET cookie == last.resp.set_cookie.v
              IN  /\ cookie.name = AUTH_COOKIE
                  /\ cookie.domain = config.domain
                  /\ cookie.path = "/"
                  /\ cookie.same_site = "Lax"
                  /\ cookie.secure = is_secure(config.tls_mode)
                  /\ cookie.http_only
                  /\ cookie.max_age =
                       SecondsPerDay *
                         (IF config.session_duration_days.some
                          THEN config.session_duration_days.v ELSE 1)

\* the item that a completed delete removed is in the file
Undone(t) ==
    /\ tasks[t].pc = "done"
    /\ tasks[t].resp.v.status = 200
    /\ file # Torn
    /\ IF tasks[t].handler = "delete_app"
       THEN PositionById(file.apps, tasks[t].arg.v) # 0
       ELSE PositionByLogin(file.users, tasks[t].arg.v) # 0

\* C27: at most one task is writing the configuration file at a time, no
\* task has read a file that is neither the content before nor the content
\* after a write, and what a completed admin operation removed has not been
\* put back by an operation that read the file before it.
C27_WritesSerialized ==
    /\ Cardinality({ t \in 1..Connections : tasks[t].pc = "opened" }) <= 1
    /\ \A t \in 1..Connections : ~tasks[t].torn
    /\ \A t \in 1..Connections : ~Undone(t)

\* the request in flight is a POST /auth/local for this login
LoginOf(login) ==
    last.handler = "local_auth" /\ last.arg.some /\ last.arg.v = login

\* the request in flight got a token for this login from the Basic-auth
\* fallback: its Basic password is no sealed token and its username is
\* looked up among the users
BasicFallbackOf(login) ==
    /\ last.handler = "whoami"
    /\ last.by = "basic"
    /\ last.auth.ok
    /\ ~cookie_from_password(AUTH_COOKIE, key, last.req.basic.v.password, last.at).ok
    /\ last.req.basic.v.username = login

\* C31: a login yields a token, by POST /auth/local or by the Basic-auth
\* fallback, only while the user is in the written configuration (a deleted
\* user is not there until an add_user writes it again), and a POST
\* /auth/local for a user of the written configuration yields a token with
\* the roles that were written.  The file stands for what was written: it
\* lacks a login only when delete_user removed it and nothing was added
\* since.
C31_UsersTakeEffect ==
    last # Idle =>
      \A login \in LoginPayloads :
        LET pos == PositionByLogin(file.users, login)
        IN  /\ ((LoginOf(login) /\ last.resp.status = 200) \/ BasicFallbackOf(login))
                  => pos # 0
            /\ (LoginOf(login) /\ pos # 0)
                  => /\ last.resp.status = 200
                     /\ last.auth.token.roles = file.users[pos].roles

\* C32: for every request that the dispatcher sends to the proxy pipeline,
\* the binding that proxy_handler resolves again exists and is a ReverseApp,
\* so its panic "Service is not an app !" does not happen; the routing
\* table is the one of startup.
C32_ProxyGetsAnApp ==
    /\ config_map = Loaded.config_map
    /\ (last # Idle /\ last.handler = "proxy_handler")
         => LET app == HostType_from_request_parts(last.req, config_map)
            IN  /\ app.ok
                /\ app.target.kind = "ReverseApp"
                /\ last.resp # Panicked

C32_Witness ==
    /\ last # Idle
    /\ last.handler = "proxy_handler"
    /\ last.forwarded
    /\ \E k \in DOMAIN config_map : config_map[k].kind = "StaticApp"

====
